---- MODULE Spec2Model ----
(***************************************************************************)
(* Model of toolbox/resource_indexer.py: the pipeline of main() --         *)
(* retrieve_valid_filepaths, build_resources_index, save_index,            *)
(* diagnosis_bad_references and diagnosis_orphan_resources.                *)
(*                                                                         *)
(* Strings are sequences of tokens ("a", ".", "tscn", "/", ...), so that    *)
(* the path tests of the code (re.search, endswith, startswith, splitext,  *)
(* relpath, the "." + group prefixing) are computed on the text.           *)
(***************************************************************************)
EXTENDS Integers, Sequences, FiniteSets, TLC

\* ------------------------------------------------------------------ bounds
MaxLines == 2      \* lines read from one file
MaxMatches == 2    \* matches of the pattern on one line
MaxRefs == 3       \* matches over the whole run

\* ------------------------------------------------------- generic helpers
Range(s) == {s[i] : i \in 1..Len(s)}

RECURSIVE Perms(_)
Perms(S) ==
    IF S = {} THEN {<<>>}
    ELSE UNION {{<<x>> \o p : p \in Perms(S \ {x})} : x \in S}

RECURSIVE Flatten(_)
Flatten(ss) == IF ss = <<>> THEN <<>> ELSE Head(ss) \o Flatten(Tail(ss))

\* str.startswith(prefix)
StartsWith(s, prefix) ==
    /\ Len(s) >= Len(prefix)
    /\ SubSeq(s, 1, Len(prefix)) = prefix

\* str.endswith(suffix)
EndsWith(s, suffix) ==
    /\ Len(s) >= Len(suffix)
    /\ SubSeq(s, Len(s) - Len(suffix) + 1, Len(s)) = suffix

\* re.search of a literal: the literal occurs somewhere in s
Contains(s, lit) ==
    \E i \in 1..Len(s) :
        /\ i + Len(lit) - 1 <= Len(s)
        /\ SubSeq(s, i, i + Len(lit) - 1) = lit

\* ------------------------------------------------------ the project tree
project_directory == <<"/", "proj">>

RootDir == <<>>
ImportDir == <<".", "import">>
GitDir == <<".", "git">>
ImgDir == <<"img">>
NestedDir == <<"sub", "/", ".", "import">>

\* Candidate files of the tree, each <<directory relative to the root, name>>.
Universe ==
    { <<RootDir, <<"a", ".", "tscn">>>>,
      <<RootDir, <<"b", ".", "gd">>>>,
      <<ImgDir, <<"c", ".", "png">>>>,
      <<ImgDir, <<"c", ".", "png", ".", "import">>>>,
      <<RootDir, <<".", "h", ".", "gd">>>>,
      <<ImportDir, <<"x", ".", "res">>>>,
      <<GitDir, <<"y", ".", "cfg">>>>,
      <<NestedDir, <<"z", ".", "gd">>>> }

\* The files of the trees whose contents are scanned for references.
Sources ==
    { <<RootDir, <<"a", ".", "tscn">>>>,
      <<RootDir, <<"b", ".", "gd">>>>,
      <<ImgDir, <<"c", ".", "png">>>> }

\* What the pattern can capture as its second group (the text after "res:/"):
\* locators of files of the project
Locators ==
    { <<"/", "b", ".", "gd">>,
      <<"/", "img", "/", "c", ".", "png">> }

\* and of files of the import metadata
ImportLocators ==
    { <<"/", ".", "import", "/", "x", ".", "res">> }

\* os.path.join(root, file_name)
Join(root, file_name) == root \o <<"/">> \o file_name

\* absolute path of a directory of the tree
AbsDir(dir) == IF dir = RootDir THEN project_directory
               ELSE Join(project_directory, dir)

\* os.path.relpath(file_path, project_directory) for a path below it
RelPath(file_path, start) == SubSeq(file_path, Len(start) + 2, Len(file_path))

\* os.walk(project_directory), top-down: the root directory first, then its
\* sub-directories; the order of the names in a directory and of the
\* sub-directories is the file system's.
Walk(t) ==
    LET names(d) == {f[2] : f \in {g \in t : g[1] = d}}
        subdirs == {f[1] : f \in t} \ {RootDir}
        visit(d) == {<<<<AbsDir(d), ns>>>> : ns \in Perms(names(d))}
        RECURSIVE chain(_)
        chain(ds) == IF ds = <<>> THEN {<<>>}
                     ELSE {v \o rest : v \in visit(Head(ds)),
                                       rest \in chain(Tail(ds))}
    IN  UNION {chain(<<RootDir>> \o ds) : ds \in Perms(subdirs)}

\* line 41 without the test of the directory
SkippedByName(root, file_name) ==
    \/ EndsWith(file_name, <<".", "import">>)
    \/ file_name[1] = "."

\* line 41: the test that skips a file
Skipped(root, file_name) ==
    \/ Contains(root, <<".", "import">>)
    \/ Contains(root, <<".", "git">>)
    \/ EndsWith(file_name, <<".", "import">>)
    \/ file_name[1] = "."

\* lines 38-44: the inner loop over the file names of one directory
RECURSIVE WalkFiles(_, _)
WalkFiles(root, file_names) ==
    IF file_names = <<>> THEN <<>>
    ELSE LET file_name == Head(file_names)
             file_path == Join(root, file_name)
             rel_path == RelPath(file_path, project_directory)
         IN  (IF Skipped(root, file_name) THEN <<>>
              ELSE <<<<".", "/">> \o rel_path>>)
             \o WalkFiles(root, Tail(file_names))

\* lines 36-45
RECURSIVE retrieve_valid_filepaths(_)
retrieve_valid_filepaths(walk) ==
    IF walk = <<>> THEN <<>>
    ELSE WalkFiles(Head(walk)[1], Head(walk)[2])
         \o retrieve_valid_filepaths(Tail(walk))

\* ----------------------------------------------------------- classifier
\* posixpath.splitext: the extension starts at the last dot of the last
\* path component, unless only dots precede it in that component.
Splitext(p) ==
    LET slashes == {i \in 1..Len(p) : p[i] = "/"}
        base == IF slashes = {} THEN 1
                ELSE (CHOOSE i \in slashes : \A j \in slashes : j <= i) + 1
        dots == {i \in base..Len(p) : p[i] = "."}
        last == CHOOSE i \in dots : \A j \in dots : j <= i
    IN  IF dots = {} THEN <<>>
        ELSE IF \A j \in base..last : p[j] = "." THEN <<>>
        ELSE SubSeq(p, last, Len(p))

\* lines 63-72 and 77: the types added to the registry, and the stock types
\* of the extensions that occur in the tree
guess_type(p) ==
    LET ext == Splitext(p)
    IN  CASE ext \in {<<".", "gd">>, <<".", "cs">>} -> "text/godot-script"
          [] ext \in {<<".", "res">>, <<".", "tres">>} -> "text/godot-resource"
          [] ext = <<".", "tscn">> -> "text/godot-scene"
          [] ext = <<".", "gdshader">> -> "text/godot-shader"
          [] ext \in {<<".", "cfg">>, <<".", "json">>} -> "text/godot-configuration"
          [] ext = <<".", "godot">> -> "text/godot-project"
          [] ext = <<".", "png">> -> "image/png"
          [] OTHER -> "None"

\* line 78
IsGodotText(path) ==
    LET mime_type == guess_type(project_directory \o <<"/">> \o path)
    IN  mime_type # "None" /\ mime_type \in
          {"text/godot-script", "text/godot-resource", "text/godot-scene",
           "text/godot-shader", "text/godot-configuration", "text/godot-project"}

\* ------------------------------------------------------------ the state
VARIABLES
    pc,            \* position in main() / build_resources_index()
    tree,          \* the files on disk below the project directory
    orphan,        \* arguments["--orphan"]
    valid_files,   \* the list returned by retrieve_valid_filepaths
    index,         \* the dict of build_resources_index, in insertion order
    fi,            \* position of the loop of line 75 in valid_files
    line_number,   \* line 85
    result,        \* matches of the current line still to be processed
    refs,          \* history: every match found, as (source, line, target)
    scanned,       \* history: the files opened by line 84
    failed,        \* history: a read of a file raised
    saved,         \* the output file: <<>> when not written, else <<index>>
    out            \* the lines printed

vars == <<pc, tree, orphan, valid_files, index, fi, line_number, result,
          refs, scanned, failed, saved, out>>

\* ----------------------------------------------------- index bookkeeping
Keys(idx) == {idx[i].key : i \in 1..Len(idx)}

\* `path in index`
Has(idx, path) == path \in Keys(idx)

Pos(idx, path) == CHOOSE i \in 1..Len(idx) : idx[i].key = path

\* index[path]
Entry(idx, path) == idx[Pos(idx, path)]

\* line 91
ResLocalPath(group) == <<".">> \o group

\* line 92 testing the files scanned so far instead of the enumerated ones
ValidResScanned(res_local_path) == res_local_path \in Range(scanned)

\* line 92
ValidRes(res_local_path) == res_local_path \in Range(valid_files)

\* lines 79-82
EnsureSource(idx, path) ==
    IF ~Has(idx, path)
    THEN Append(idx, [key |-> path, valid |-> TRUE, references |-> <<>>,
                      count |-> 0, by |-> <<>>])
    ELSE [idx EXCEPT ![Pos(idx, path)].valid = TRUE]

\* lines 93-101 without the increment of line 101
CountTargetOnce(idx, res_local_path) ==
    IF ~Has(idx, res_local_path)
    THEN Append(idx, [key |-> res_local_path, valid |-> ValidRes(res_local_path),
                      references |-> <<>>, count |-> 1, by |-> <<>>])
    ELSE idx

\* lines 93-101 with a new entry starting at count 0
CountTargetFromZero(idx, res_local_path) ==
    IF ~Has(idx, res_local_path)
    THEN Append(idx, [key |-> res_local_path, valid |-> ValidRes(res_local_path),
                      references |-> <<>>, count |-> 0, by |-> <<>>])
    ELSE [idx EXCEPT ![Pos(idx, res_local_path)].count = @ + 1]

\* lines 93-101
CountTarget(idx, res_local_path) ==
    IF ~Has(idx, res_local_path)
    THEN Append(idx, [key |-> res_local_path, valid |-> ValidRes(res_local_path),
                      references |-> <<>>, count |-> 1, by |-> <<>>])
    ELSE [idx EXCEPT ![Pos(idx, res_local_path)].count = @ + 1]

\* lines 103-109 recording a 1-based line
AddReferenceOneBased(idx, path, res_local_path) ==
    [idx EXCEPT ![Pos(idx, path)].references =
        Append(@, [line |-> line_number + 1, path |-> res_local_path,
                   valid |-> ValidRes(res_local_path)])]

\* lines 103-109
AddReference(idx, path, res_local_path) ==
    [idx EXCEPT ![Pos(idx, path)].references =
        Append(@, [line |-> line_number, path |-> res_local_path,
                   valid |-> ValidRes(res_local_path)])]

\* lines 110-112 inserting at the front of the list
AddByFront(idx, path, res_local_path) ==
    [idx EXCEPT ![Pos(idx, res_local_path)].by =
        <<[source |-> path, at |-> line_number]>> \o @]

\* lines 110-112
AddBy(idx, path, res_local_path) ==
    [idx EXCEPT ![Pos(idx, res_local_path)].by =
        Append(@, [source |-> path, at |-> line_number])]

\* ------------------------------------------------------------ reporters
Printed(kind, key, n) == [kind |-> kind, key |-> key, n |-> n]

RECURSIVE ByLines(_)
ByLines(by) ==
    IF by = <<>> THEN <<>>
    ELSE <<Printed("by", Head(by).source, Head(by).at)>> \o ByLines(Tail(by))

\* line 144 with the prefix written without "./"
IsImportKeyBare(key) == StartsWith(key, <<".", "import">>)

\* line 144
IsImportKey(key) == StartsWith(key, <<".", "/", ".", "import">>)

\* lines 143-151: what one entry prints
BadReferenceLines(data) ==
    IF ~data.valid
    THEN (IF IsImportKey(data.key)
          THEN <<Printed("warning", data.key, 0)>>
          ELSE <<Printed("not_valid", data.key, data.count)>>)
         \o ByLines(data.by)
    ELSE <<>>

\* lines 141-151
diagnosis_bad_references(idx) ==
    <<Printed("bad_header", <<>>, 0)>>
    \o Flatten([i \in 1..Len(idx) |-> BadReferenceLines(idx[i])])

\* lines 172-173
OrphanLines(data) ==
    IF data.count = 0 THEN <<Printed("orphan", data.key, 0)>> ELSE <<>>

\* lines 163-173
diagnosis_orphan_resources(idx) ==
    <<Printed("orphan_header", <<>>, 0), Printed("orphan_caveat", <<>>, 0)>>
    \o Flatten([i \in 1..Len(idx) |-> OrphanLines(idx[i])])

\* ------------------------------------------------------------- behaviour
InitState ==
    /\ pc = "main182"
    /\ orphan = FALSE
    /\ valid_files = <<>>
    /\ index = <<>>
    /\ fi = 1
    /\ line_number = 0
    /\ result = <<>>
    /\ refs = <<>>
    /\ scanned = <<>>
    /\ failed = FALSE
    /\ saved = <<>>
    /\ out = <<>>

\* trees of scannable files, with any references in them
Init ==
    /\ tree \in SUBSET Sources
    /\ InitState

\* any tree, with files that hold no reference
InitWalk ==
    /\ tree \in SUBSET Universe
    /\ InitState

\* main(), lines 182-194: print the output path, enumerate the files
Main182 ==
    /\ pc = "main182"
    /\ out' = Append(out, Printed("output_path", <<>>, 0))
    /\ \E walk \in Walk(tree) :
          valid_files' = retrieve_valid_filepaths(walk)
    /\ pc' = "loop75"
    /\ UNCHANGED <<tree, orphan, index, fi, line_number, result, refs,
                   scanned, failed, saved>>

\* lines 75-78: a file that is not a Godot text file is passed over
SkipFile ==
    /\ pc = "loop75"
    /\ fi <= Len(valid_files)
    /\ ~IsGodotText(valid_files[fi])
    /\ fi' = fi + 1
    /\ UNCHANGED <<pc, tree, orphan, valid_files, index, line_number, result,
                   refs, scanned, failed, saved, out>>

\* lines 75-85: a Godot text file gets its entry and is opened
OpenFile ==
    /\ pc = "loop75"
    /\ fi <= Len(valid_files)
    /\ IsGodotText(valid_files[fi])
    /\ index' = EnsureSource(index, valid_files[fi])
    /\ scanned' = Append(scanned, valid_files[fi])
    /\ line_number' = 0
    /\ pc' = "line86"
    /\ UNCHANGED <<tree, orphan, valid_files, fi, result, refs, failed,
                   saved, out>>

\* lines 75-84: open() raises; the exception leaves main()
OpenFail ==
    /\ pc = "loop75"
    /\ fi <= Len(valid_files)
    /\ IsGodotText(valid_files[fi])
    /\ index' = EnsureSource(index, valid_files[fi])
    /\ failed' = TRUE
    /\ pc' = "aborted"
    /\ UNCHANGED <<tree, orphan, valid_files, fi, line_number, result, refs,
                   scanned, saved, out>>

\* The results findall can give on one line: up to MaxMatches captures.
LineResults(locators, room) ==
    UNION {[1..n -> locators] :
             n \in 0..(IF room < MaxMatches THEN room ELSE MaxMatches)}

\* lines 86-88 and 113: the next line is read and matched; lines is the set
\* of results findall may give
ReadLine(lines) ==
    /\ pc = "line86"
    /\ line_number < MaxLines
    /\ \E res \in lines :
          /\ result' = res
          /\ refs' = refs \o [i \in 1..Len(res) |->
                        [source |-> valid_files[fi], line |-> line_number,
                         target |-> ResLocalPath(res[i])]]
          /\ IF res = <<>>
             THEN line_number' = line_number + 1 /\ pc' = pc
             ELSE line_number' = line_number /\ pc' = "m93"
    /\ UNCHANGED <<tree, orphan, valid_files, index, fi, scanned, failed,
                   saved, out>>

\* line 86 with the exception caught and the file given up
ReadFailSkip ==
    /\ pc = "line86"
    /\ failed' = TRUE
    /\ fi' = fi + 1
    /\ pc' = "loop75"
    /\ UNCHANGED <<tree, orphan, valid_files, index, line_number, result,
                   refs, scanned, saved, out>>

\* line 86: reading or decoding the next line raises
ReadFail ==
    /\ pc = "line86"
    /\ failed' = TRUE
    /\ pc' = "aborted"
    /\ UNCHANGED <<tree, orphan, valid_files, index, fi, line_number, result,
                   refs, scanned, saved, out>>

\* line 86: end of file, back to the loop of line 75
EndOfFile ==
    /\ pc = "line86"
    /\ fi' = fi + 1
    /\ pc' = "loop75"
    /\ UNCHANGED <<tree, orphan, valid_files, index, line_number, result,
                   refs, scanned, failed, saved, out>>

\* lines 89-101: the target of the next match is created or counted
Match93 ==
    /\ pc = "m93"
    /\ index' = CountTarget(index, ResLocalPath(Head(result)))
    /\ pc' = "m103"
    /\ UNCHANGED <<tree, orphan, valid_files, fi, line_number, result, refs,
                   scanned, failed, saved, out>>

\* lines 103-109
Match103 ==
    /\ pc = "m103"
    /\ index' = AddReference(index, valid_files[fi], ResLocalPath(Head(result)))
    /\ pc' = "m110"
    /\ UNCHANGED <<tree, orphan, valid_files, fi, line_number, result, refs,
                   scanned, failed, saved, out>>

\* lines 110-113: the by record; then the next match, or the next line
Match110 ==
    /\ pc = "m110"
    /\ index' = AddBy(index, valid_files[fi], ResLocalPath(Head(result)))
    /\ result' = Tail(result)
    /\ IF Tail(result) = <<>>
       THEN line_number' = line_number + 1 /\ pc' = "line86"
       ELSE line_number' = line_number /\ pc' = "m93"
    /\ UNCHANGED <<tree, orphan, valid_files, fi, refs, scanned, failed,
                   saved, out>>

\* lines 114 and 195: the loop of line 75 is over
Return114 ==
    /\ pc = "loop75"
    /\ fi > Len(valid_files)
    /\ pc' = "main196"
    /\ UNCHANGED <<tree, orphan, valid_files, index, fi, line_number, result,
                   refs, scanned, failed, saved, out>>

\* line 196 and save_index, lines 128-129
Main196 ==
    /\ pc = "main196"
    /\ saved' = <<index>>
    /\ pc' = "main197"
    /\ UNCHANGED <<tree, orphan, valid_files, index, fi, line_number, result,
                   refs, scanned, failed, out>>

\* line 197
Main197 ==
    /\ pc = "main197"
    /\ out' = out \o diagnosis_bad_references(index)
    /\ pc' = "main198"
    /\ UNCHANGED <<tree, orphan, valid_files, index, fi, line_number, result,
                   refs, scanned, failed, saved>>

\* lines 198-199; arguments["--orphan"], parsed by line 182, is read here
\* for the first time
Main198 ==
    /\ pc = "main198"
    /\ orphan' \in BOOLEAN
    /\ out' = IF orphan' THEN out \o diagnosis_orphan_resources(index) ELSE out
    /\ pc' = "done"
    /\ UNCHANGED <<tree, valid_files, index, fi, line_number, result,
                   refs, scanned, failed, saved>>

Next ==
    \/ Main182
    \/ SkipFile
    \/ OpenFile
    \/ OpenFail
    \/ ReadLine(LineResults(Locators, MaxRefs - Len(refs)))
    \/ ReadFail
    \/ EndOfFile
    \/ Match93
    \/ Match103
    \/ Match110
    \/ Return114
    \/ Main196
    \/ Main197
    \/ Main198

Spec == Init /\ [][Next]_vars

\* the same program over files that also refer to the import metadata
NextImport ==
    \/ Main182
    \/ SkipFile
    \/ OpenFile
    \/ OpenFail
    \/ ReadLine(LineResults(Locators \cup ImportLocators, MaxRefs - Len(refs)))
    \/ ReadFail
    \/ EndOfFile
    \/ Match93
    \/ Match103
    \/ Match110
    \/ Return114
    \/ Main196
    \/ Main197
    \/ Main198

SpecImport == Init /\ [][NextImport]_vars

\* the same program over any tree, with files that hold no reference
NextWalk ==
    \/ Main182
    \/ SkipFile
    \/ OpenFile
    \/ OpenFail
    \/ ReadLine({<<>>})
    \/ ReadFail
    \/ EndOfFile
    \/ Return114
    \/ Main196
    \/ Main197
    \/ Main198

SpecWalk == InitWalk /\ [][NextWalk]_vars

\* ---------------------------------------------------------------- claims
F == Range(valid_files)

\* build_resources_index has returned
Built == pc \in {"main196", "main197", "main198", "done"}

\* position of a path in the enumerated list
FPos(path) == CHOOSE i \in 1..Len(valid_files) : valid_files[i] = path

Targets == {refs[i].target : i \in 1..Len(refs)}

RefsTo(t) == {i \in 1..Len(refs) : refs[i].target = t}

\* C1: once the index is built, every enumerated path is a key of the index
\* and its entry is valid.
C1_EveryFileIndexed ==
    Built => \A p \in F : Has(index, p) /\ Entry(index, p).valid

\* C2: once the index is built, the entry of every reference target is
\* valid exactly when the target is an enumerated file.
C2_ValidIffEnumerated ==
    Built => \A t \in Targets :
                /\ Has(index, t)
                /\ Entry(index, t).valid = (t \in F)

\* a run where a Godot text file was referenced before it was scanned, and
\* a path that is not enumerated was referenced
C2_Witness ==
    /\ pc = "done"
    /\ \E i \in 1..Len(refs) :
          /\ refs[i].target \in Range(scanned)
          /\ FPos(refs[i].source) < FPos(refs[i].target)
    /\ \E i \in 1..Len(refs) : refs[i].target \notin F

\* C3: once the index is built, count of every entry is the number of
\* matches whose target it is, and its by list has that length.
C3_CountExact ==
    Built => \A i \in 1..Len(index) :
                /\ index[i].count = Cardinality(RefsTo(index[i].key))
                /\ Len(index[i].by) = index[i].count

\* a run with two matches of one target on one line, a self-reference and
\* a scanned file that nothing references
C3_Witness ==
    /\ pc = "done"
    /\ \E i, j \in 1..Len(refs) :
          /\ i # j
          /\ refs[i] = refs[j]
    /\ \E i \in 1..Len(refs) : refs[i].source = refs[i].target
    /\ \E i \in 1..Len(index) : index[i].count = 0

\* C4: with the orphan flag on, every enumerated file that no match targets
\* is listed by the orphan report.
C4_OrphanListsUnreferenced ==
    (pc = "done" /\ orphan) =>
        \A p \in F : p \notin Targets =>
            \E k \in 1..Len(out) : out[k] = Printed("orphan", p, 0)

\* the part of the output printed by diagnosis_bad_references
BadReport ==
    LET start == CHOOSE k \in 1..Len(out) : out[k].kind = "bad_header"
        others == {k \in 1..Len(out) : out[k].kind = "orphan_header"}
        stop == IF others = {} THEN Len(out) ELSE (CHOOSE k \in others : TRUE) - 1
    IN  SubSeq(out, start, stop)

\* a key below ./.import
InImportNamespace(key) ==
    /\ Len(key) >= 4
    /\ key[1] = "." /\ key[2] = "/" /\ key[3] = "." /\ key[4] = "import"

RECURSIVE SumInvalid(_)
SumInvalid(idx) ==
    IF idx = <<>> THEN 0
    ELSE (IF Head(idx).valid THEN 0 ELSE 1 + Len(Head(idx).by))
         + SumInvalid(Tail(idx))

\* C5: in the bad-reference report a valid entry prints nothing; an invalid
\* entry below ./.import prints the warning and no "not valid" line; every
\* other invalid entry prints the "not valid" line, followed by its by list
\* in order.
C5_BadReferenceReport ==
    pc \in {"main198", "done"} =>
        LET rep == BadReport
            heads(key) == {k \in 1..Len(rep) :
                             rep[k].kind \in {"warning", "not_valid"}
                             /\ rep[k].key = key}
        IN  /\ Len(rep) = 1 + SumInvalid(index)
            /\ \A i \in 1..Len(index) :
                  LET e == index[i]
                  IN  IF e.valid THEN heads(e.key) = {}
                      ELSE /\ Cardinality(heads(e.key)) = 1
                           /\ \A k \in heads(e.key) :
                                IF InImportNamespace(e.key)
                                THEN rep[k].kind = "warning"
                                ELSE /\ rep[k] = Printed("not_valid", e.key, e.count)
                                     /\ k + Len(e.by) <= Len(rep)
                                     /\ \A j \in 1..Len(e.by) :
                                          rep[k + j] =
                                            Printed("by", e.by[j].source, e.by[j].at)

\* a report over a valid entry, an invalid one below ./.import and an
\* invalid one elsewhere that is referenced twice
C5_Witness ==
    /\ pc = "done"
    /\ \E i \in 1..Len(index) : index[i].valid
    /\ \E i \in 1..Len(index) :
          ~index[i].valid /\ InImportNamespace(index[i].key)
    /\ \E i \in 1..Len(index) :
          /\ ~index[i].valid
          /\ ~InImportNamespace(index[i].key)
          /\ Len(index[i].by) >= 2

\* the path under which a file of the tree would be enumerated
TreePath(f) == <<".", "/">> \o (IF f[1] = RootDir THEN f[2] ELSE Join(f[1], f[2]))

\* a directory named .import or .git is on the way to dir
UnderMetadataDir(dir) ==
    \E i \in 1..(Len(dir) - 1) :
        /\ dir[i] = "." /\ dir[i + 1] \in {"import", "git"}
        /\ (i = 1 \/ dir[i - 1] = "/")
        /\ (i + 1 = Len(dir) \/ dir[i + 2] = "/")

\* a file below .import or .git, a hidden file, or an import sidecar
Excluded(f) ==
    \/ UnderMetadataDir(f[1])
    \/ Head(f[2]) = "."
    \/ (Len(f[2]) >= 2 /\ f[2][Len(f[2]) - 1] = "." /\ f[2][Len(f[2])] = "import")

\* C6: no file below .import or .git, no hidden file and no import sidecar
\* is ever enumerated or opened.
C6_ExcludedNeverScanned ==
    \A f \in tree : Excluded(f) =>
        /\ TreePath(f) \notin F
        /\ TreePath(f) \notin Range(scanned)

\* a finished run over a tree with a file below a metadata directory, a
\* hidden file or sidecar, and a file that was scanned
C6_Witness ==
    /\ pc = "done"
    /\ \E f \in tree : UnderMetadataDir(f[1])
    /\ \E f \in tree : ~UnderMetadataDir(f[1]) /\ Excluded(f)
    /\ scanned # <<>>

\* C7: files are opened in the order of the enumerated list; every
\* references list is non-decreasing in line number; every by list is
\* ordered by the position of the source in the list, then by line.
C7_Ordering ==
    /\ \A a, b \in 1..Len(scanned) :
          a < b => FPos(scanned[a]) < FPos(scanned[b])
    /\ \A i \in 1..Len(index) :
          /\ \A a, b \in 1..Len(index[i].references) :
                a < b => index[i].references[a].line <= index[i].references[b].line
          /\ \A a, b \in 1..Len(index[i].by) :
                a < b =>
                  \/ FPos(index[i].by[a].source) < FPos(index[i].by[b].source)
                  \/ /\ index[i].by[a].source = index[i].by[b].source
                     /\ index[i].by[a].at <= index[i].by[b].at

\* a run where one entry is referenced from two files and one file has
\* references on two lines
C7_Witness ==
    /\ pc = "done"
    /\ \E i \in 1..Len(index) : \E a, b \in 1..Len(index[i].by) :
          index[i].by[a].source # index[i].by[b].source
    /\ \E i \in 1..Len(index) : \E a, b \in 1..Len(index[i].references) :
          index[i].references[a].line # index[i].references[b].line

\* C8: when a read fails the run stops there: no later file is opened,
\* nothing is saved and no report is printed.
C8_FailFast ==
    failed =>
        /\ pc = "aborted"
        /\ saved = <<>>
        /\ out = <<Printed("output_path", <<>>, 0)>>
        /\ Range(scanned) \subseteq Range(SubSeq(valid_files, 1, fi))

\* a read failed after some matches were recorded, with a Godot text file
\* still to come in the list
C8_Witness ==
    /\ failed
    /\ refs # <<>>
    /\ \E k \in (fi + 1)..Len(valid_files) : IsGodotText(valid_files[k])

OccursIn(s, r) == Cardinality({k \in 1..Len(s) : s[k] = r})

\* C9: between matches, references and by agree: (n, t) occurs in the
\* references of s as often as (s, n) occurs in the by list of t, and the
\* valid flag of a references record is the valid flag of its target.
C9_BothDirectionsAgree ==
    pc \notin {"m103", "m110"} =>
        /\ \A a \in 1..Len(index) : \A k \in 1..Len(index[a].references) :
              \E b \in 1..Len(index) :
                  /\ index[b].key = index[a].references[k].path
                  /\ index[b].valid = index[a].references[k].valid
                  /\ OccursIn(index[a].references, index[a].references[k])
                       = OccursIn(index[b].by,
                                  [source |-> index[a].key,
                                   at |-> index[a].references[k].line])
        /\ \A b \in 1..Len(index) : \A k \in 1..Len(index[b].by) :
              \E a \in 1..Len(index) :
                  /\ index[a].key = index[b].by[k].source
                  /\ OccursIn(index[b].by, index[b].by[k])
                       = OccursIn(index[a].references,
                                  [line |-> index[b].by[k].at,
                                   path |-> index[b].key,
                                   valid |-> index[b].valid])

\* a built index holding the same reference twice on one line, a reference
\* to a valid target and one to an invalid target
C9_Witness ==
    /\ pc = "done"
    /\ \E a \in 1..Len(index) : \E j, k \in 1..Len(index[a].references) :
          j # k /\ index[a].references[j] = index[a].references[k]
    /\ \E a \in 1..Len(index) : \E k \in 1..Len(index[a].references) :
          index[a].references[k].valid
    /\ \E a \in 1..Len(index) : \E k \in 1..Len(index[a].references) :
          ~index[a].references[k].valid

\* C10: in every state an invalid entry has count >= 1 and no references,
\* and an entry with count 0 is an enumerated Godot text file that is valid.
C10_InvalidAreCounted ==
    \A i \in 1..Len(index) :
        /\ ~index[i].valid => (index[i].count >= 1 /\ index[i].references = <<>>)
        /\ index[i].count = 0 =>
              /\ index[i].key \in F
              /\ IsGodotText(index[i].key)
              /\ index[i].valid

\* in the middle of a match, with an invalid entry and an entry of count 0
C10_Witness ==
    /\ pc = "m103"
    /\ \E i \in 1..Len(index) : ~index[i].valid
    /\ \E i \in 1..Len(index) : index[i].count = 0

====
